---- MODULE Spec2Model ----
(***************************************************************************)
(* Model of my_app.py: the start-up pipeline that loads the incident,      *)
(* disaster-day and enrollment tables, joins and aggregates them, and the  *)
(* update_chart callback that redraws the chart and the data table for a   *)
(* selected county.                                                        *)
(*                                                                         *)
(* A cell of a dataframe is a record [k, n, d]: k = "num" is the rational  *)
(* n/d (d = 1 for integers), k = "nan" is a missing value, k = "inf" is a  *)
(* float infinity and k = "str" is a text cell that is not a number.       *)
(* Quotients are exact rationals in lowest terms; days and enrollment are  *)
(* non-negative.  Every incident row has an INCIDENT_ID, so count() counts *)
(* rows.                                                                   *)
(***************************************************************************)
EXTENDS Integers, Sequences, FiniteSets

VARIABLES
    pc,                    \* position of the module-level script: "loaded",
                           \* "transformed", "cast", "aggregated", "serving", or
                           \* "raised_<line>" when the statement at that line raised
    county_incidents_df,   \* rows [COUNTY_NAME, YEAR, INCIDENT_ID]
    disaster_days_df,      \* rows [year, county, reason, days]
    enrollment_xlsx,       \* the wide sheet [header, rows] as read
    enrollment_df,         \* long rows [county, year, enrollment]
    disaster_enrollment_df, \* joined rows [year, county, reason, days, enrollment_y, ...]
    county_agg_df,         \* set of rows [year, county, total_days_lost, ...]
    merged_df_california,  \* incident rows kept by the county/year filter
    global_students_max,
    global_days_max,
    selected_county,       \* last value delivered by the dropdown
    callback,              \* "idle", "returned" or "raised"
    fig,
    table_data,
    first_call             \* history: <<>>, or the first call that returned and
                           \* whether a call for another county returned since

vars == <<pc, county_incidents_df, disaster_days_df, enrollment_xlsx,
          enrollment_df, disaster_enrollment_df, county_agg_df, merged_df_california,
          global_students_max, global_days_max, selected_county, callback,
          fig, table_data, first_call>>

frames == <<county_incidents_df, disaster_days_df, enrollment_xlsx,
            enrollment_df, disaster_enrollment_df, county_agg_df, merged_df_california,
            global_students_max, global_days_max>>

(***************************************************************************)
(* Bounds of the model.                                                    *)
(***************************************************************************)
MaxDisasterRows == 2
MaxIncidentRows == 2

(***************************************************************************)
(* Cells.                                                                  *)
(***************************************************************************)
Num(i) == [k |-> "num", n |-> i, d |-> 1]
NaN == [k |-> "nan", n |-> 0, d |-> 1]
Inf == [k |-> "inf", n |-> 0, d |-> 1]
Text == [k |-> "str", n |-> 0, d |-> 1]
None == "None"

IsNum(v) == v.k = "num"

RECURSIVE Gcd(_, _)
Gcd(a, b) == IF b = 0 THEN a ELSE Gcd(b, a % b)

\* a / b on two float cells (non-negative operands)
Divide(a, b) ==
    IF ~IsNum(a) \/ ~IsNum(b) THEN NaN
    ELSE IF b.n = 0 THEN (IF a.n = 0 THEN NaN ELSE Inf)
    ELSE LET p == a.n * b.d
             q == a.d * b.n
             g == Gcd(p, q)
         IN  [k |-> "num", n |-> p \div g, d |-> q \div g]

\* a * b on two float cells
Times(a, b) ==
    IF ~IsNum(a) \/ ~IsNum(b) THEN NaN
    ELSE LET p == a.n * b.n
             q == a.d * b.d
             g == Gcd(p, q)
         IN  [k |-> "num", n |-> p \div g, d |-> q \div g]

Plus(a, b) ==
    LET p == a.n * b.d + b.n * a.d
        q == a.d * b.d
        g == Gcd(p, q)
    IN  [k |-> "num", n |-> p \div g, d |-> q \div g]

LessEq(a, b) == a.n * b.d <= b.n * a.d

\* a conversion that leaves a text cell in place
ToNumericIgnore(v) == v

\* pd.to_numeric(column, errors='coerce') on one cell
ToNumeric(v) == IF IsNum(v) THEN v ELSE NaN

\* DataFrame.fillna(0) on one cell
FillNa(v) == IF v.k = "nan" THEN Num(0) ELSE v

\* Series.sum(): missing values are skipped, an empty sum is 0
RECURSIVE SumCells(_)
SumCells(s) ==
    IF s = <<>> THEN Num(0)
    ELSE IF IsNum(Head(s)) THEN Plus(Head(s), SumCells(Tail(s)))
    ELSE SumCells(Tail(s))

\* Series.max() of float cells: missing values are skipped, NaN when none is left
MaxCells(S) ==
    LET nums == {v \in S : IsNum(v)}
    IN  IF \E v \in S : v.k = "inf" THEN Inf
        ELSE IF nums = {} THEN NaN
        ELSE CHOOSE m \in nums : \A v \in nums : LessEq(v, m)

(***************************************************************************)
(* Strings.                                                                *)
(***************************************************************************)
california_counties == <<
    "Alameda", "Alpine", "Amador", "Butte", "Calaveras",
    "Colusa", "Contra Costa", "Del Norte", "El Dorado", "Fresno",
    "Glenn", "Humboldt", "Imperial", "Inyo", "Kern",
    "Kings", "Lake", "Lassen", "Los Angeles", "Madera",
    "Marin", "Mariposa", "Mendocino", "Merced", "Modoc",
    "Mono", "Monterey", "Napa", "Nevada", "Orange",
    "Placer", "Plumas", "Riverside", "Sacramento", "San Benito",
    "San Bernardino", "San Diego", "San Francisco", "San Joaquin", "San Luis Obispo",
    "San Mateo", "Santa Barbara", "Santa Clara", "Santa Cruz", "Shasta",
    "Sierra", "Siskiyou", "Solano", "Sonoma", "Stanislaus",
    "Sutter", "Tehama", "Trinity", "Tulare", "Tuolumne",
    "Ventura", "Yolo", "Yuba"
>>

\* str.lower() on the names that occur; any other name is lower case already
LowerTable == {
    <<"Alameda", "alameda">>, <<"Alpine", "alpine">>, <<"Amador", "amador">>,
    <<"Butte", "butte">>, <<"Calaveras", "calaveras">>, <<"Colusa", "colusa">>,
    <<"Contra Costa", "contra costa">>, <<"Del Norte", "del norte">>, <<"El Dorado", "el dorado">>,
    <<"Fresno", "fresno">>, <<"Glenn", "glenn">>, <<"Humboldt", "humboldt">>,
    <<"Imperial", "imperial">>, <<"Inyo", "inyo">>, <<"Kern", "kern">>,
    <<"Kings", "kings">>, <<"Lake", "lake">>, <<"Lassen", "lassen">>,
    <<"Los Angeles", "los angeles">>, <<"Madera", "madera">>, <<"Marin", "marin">>,
    <<"Mariposa", "mariposa">>, <<"Mendocino", "mendocino">>, <<"Merced", "merced">>,
    <<"Modoc", "modoc">>, <<"Mono", "mono">>, <<"Monterey", "monterey">>,
    <<"Napa", "napa">>, <<"Nevada", "nevada">>, <<"Orange", "orange">>,
    <<"Placer", "placer">>, <<"Plumas", "plumas">>, <<"Riverside", "riverside">>,
    <<"Sacramento", "sacramento">>, <<"San Benito", "san benito">>, <<"San Bernardino", "san bernardino">>,
    <<"San Diego", "san diego">>, <<"San Francisco", "san francisco">>, <<"San Joaquin", "san joaquin">>,
    <<"San Luis Obispo", "san luis obispo">>, <<"San Mateo", "san mateo">>, <<"Santa Barbara", "santa barbara">>,
    <<"Santa Clara", "santa clara">>, <<"Santa Cruz", "santa cruz">>, <<"Shasta", "shasta">>,
    <<"Sierra", "sierra">>, <<"Siskiyou", "siskiyou">>, <<"Solano", "solano">>,
    <<"Sonoma", "sonoma">>, <<"Stanislaus", "stanislaus">>, <<"Sutter", "sutter">>,
    <<"Tehama", "tehama">>, <<"Trinity", "trinity">>, <<"Tulare", "tulare">>,
    <<"Tuolumne", "tuolumne">>, <<"Ventura", "ventura">>, <<"Yolo", "yolo">>,
    <<"Yuba", "yuba">>,
    <<"Alameda County", "alameda county">>, <<"Washoe", "washoe">>
}

StrLower(s) ==
    IF \E p \in LowerTable : p[1] = s
    THEN (CHOOSE p \in LowerTable : p[1] = s)[2]
    ELSE s

\* str.replace(' county', '')
ReplaceCountyTable == { <<"alameda county", "alameda">> }

StrReplaceCounty(s) ==
    IF \E p \in ReplaceCountyTable : p[1] = s
    THEN (CHOOSE p \in ReplaceCountyTable : p[1] = s)[2]
    ELSE s

\* str.title() on a county name of the list (each is title case already)
StrTitle(s) == s

Digits == <<"0", "1", "2", "3", "4", "5", "6", "7", "8", "9">>

IsDigit(c) == \E i \in 1..10 : Digits[i] = c

DigitValue(c) == (CHOOSE i \in 1..10 : Digits[i] = c) - 1

\* x.split('-')[0]
RECURSIVE SplitFirst(_)
SplitFirst(x) ==
    IF x = <<>> \/ Head(x) = "-" THEN <<>>
    ELSE <<Head(x)>> \o SplitFirst(Tail(x))

RECURSIVE DigitsValue(_)
DigitsValue(x) ==
    IF x = <<>> THEN 0
    ELSE 10 * DigitsValue(SubSeq(x, 1, Len(x) - 1)) + DigitValue(x[Len(x)])

\* int(text): a ValueError unless the text is a non-empty run of digits
IntRaises(x) == x = <<>> \/ \E i \in 1..Len(x) : ~IsDigit(x[i])

\* lambda x: int(x.split('-')[0])
YearOfLabelRaises(x) == IntRaises(SplitFirst(x))
YearOfLabel(x) == DigitsValue(SplitFirst(x))

(***************************************************************************)
(* The files as read (lines 11-14).  The row order of the two CSV files    *)
(* reaches no later result (every use is a filter, a join that is then     *)
(* grouped, or a groupby, which sorts by key), so each is enumerated in    *)
(* one order of its rows.                                                  *)
(***************************************************************************)
Years == <<Num(2018), Num(2019)>>
Counties == <<"Alameda", "Butte">>
\* [reason, days] of a disaster-day row
Causes == << <<"wildfire", Num(1)>>, <<"snow", Num(3)>>, <<"wildfire", Text>> >>

NumDisasterChoices == Len(Years) * Len(Counties) * Len(Causes) + 1

DisasterRow(i) ==
    IF i = NumDisasterChoices
    THEN [year |-> Text, county |-> "Alameda", reason |-> "wildfire", days |-> Num(1)]
    ELSE LET j == i - 1
             y == Years[(j % Len(Years)) + 1]
             c == Counties[((j \div Len(Years)) % Len(Counties)) + 1]
             z == Causes[(j \div (Len(Years) * Len(Counties))) + 1]
         IN  [year |-> y, county |-> c, reason |-> z[1], days |-> z[2]]

IncidentNames == <<"Alameda County", "Butte", "Washoe">>
IncidentYears == <<2001, 2017, 2018>>

NumIncidentChoices == Len(IncidentNames) * Len(IncidentYears)

IncidentRow(i, id) ==
    LET j == i - 1
    IN  [COUNTY_NAME |-> IncidentNames[(j % Len(IncidentNames)) + 1],
         YEAR |-> IncidentYears[(j \div Len(IncidentNames)) + 1],
         INCIDENT_ID |-> id]

\* the sequences of at most max row choices out of 1..n, in one order
RowChoices(n, max) ==
    UNION {{s \in [1..m -> 1..n] : \A j \in 1..(m - 1) : s[j] <= s[j + 1]} : m \in 0..max}

DisasterFiles(max) ==
    {[j \in 1..Len(s) |-> DisasterRow(s[j])] : s \in RowChoices(NumDisasterChoices, max)}

IncidentFiles(max) ==
    {[j \in 1..Len(s) |-> IncidentRow(s[j], j)] : s \in RowChoices(NumIncidentChoices, max)}

Label2018 == <<"2", "0", "1", "8", "-", "1", "9">>
Label2019 == <<"2", "0", "1", "9", "-", "2", "0">>
LabelTotal == <<"T", "o", "t", "a", "l">>

Headers == {<<Label2018, Label2019>>, <<Label2018, LabelTotal>>}

\* the cells of one sheet row, one per value column
FirstRowCells == {<<Num(2), Num(2)>>, <<Num(2), Text>>, <<Text, Num(2)>>, <<Text, Text>>}
NextRowCells == {<<Num(3), Num(3)>>}

\* a sheet has at most one row for a county, in the order of Counties
SheetRows ==
    {<<>>}
    \cup {<<[County |-> "Alameda", cells |-> c]>> : c \in FirstRowCells}
    \cup {<<[County |-> "Butte", cells |-> c]>> : c \in NextRowCells}
    \cup {<<[County |-> "Alameda", cells |-> c], [County |-> "Butte", cells |-> d]>> :
              c \in FirstRowCells, d \in NextRowCells}

Sheets == {[header |-> h, rows |-> r] : h \in Headers, r \in SheetRows}

SampleSheets ==
    {[header |-> <<Label2018, Label2019>>, rows |-> r] :
        r \in {<<>>, <<[County |-> "Alameda", cells |-> <<Num(2), Num(2)>>]>>,
               <<[County |-> "Alameda", cells |-> <<Num(2), Num(2)>>],
                 [County |-> "Butte", cells |-> <<Num(3), Num(3)>>]>>}}

SampleIncidentFiles ==
    {<<[COUNTY_NAME |-> "Alameda County", YEAR |-> 2001, INCIDENT_ID |-> 1],
       [COUNTY_NAME |-> "Alameda County", YEAR |-> 2017, INCIDENT_ID |-> 2],
       [COUNTY_NAME |-> "Alameda County", YEAR |-> 2018, INCIDENT_ID |-> 3],
       [COUNTY_NAME |-> "Butte", YEAR |-> 2018, INCIDENT_ID |-> 4],
       [COUNTY_NAME |-> "Washoe", YEAR |-> 2018, INCIDENT_ID |-> 5]>>}

(***************************************************************************)
(* Lines 16-25: melt the sheet to long format, parse the year label,       *)
(* lower-case the county names.                                            *)
(***************************************************************************)
\* DataFrame.melt(id_vars=['County'], var_name='year', value_name='enrollment'):
\* one row per value column and sheet row, column by column
Melt(sheet) ==
    LET nr == Len(sheet.rows)
        nc == Len(sheet.header)
    IN  [i \in 1..(nr * nc) |->
            LET col == ((i - 1) \div nr) + 1
                row == ((i - 1) % nr) + 1
            IN  [County |-> sheet.rows[row].County,
                 year |-> sheet.header[col],
                 enrollment |-> sheet.rows[row].cells[col]]]

\* Series.apply calls the lambda on every melted row: it raises if one label fails
TransformRaises(sheet) ==
    \E i \in 1..Len(Melt(sheet)) : YearOfLabelRaises(Melt(sheet)[i].year)

TransformedEnrollment(sheet) ==
    LET m == Melt(sheet)
    IN  [i \in 1..Len(m) |->
            [county |-> StrLower(m[i].County),
             year |-> YearOfLabel(m[i].year),
             enrollment |-> m[i].enrollment]]

LowerCounty(df) == [i \in 1..Len(df) |-> [df[i] EXCEPT !.county = StrLower(@)]]

(***************************************************************************)
(* Line 28: disaster_days_df['year'].astype(int).                          *)
(***************************************************************************)
AsTypeIntRaises(df) == \E i \in 1..Len(df) : ~IsNum(df[i].year)

AsTypeInt(df) == [i \in 1..Len(df) |-> [df[i] EXCEPT !.year = @.n]]

(***************************************************************************)
(* Lines 30-55: inner join on (year, county), numeric coercion,            *)
(* days * enrollment, groupby (year, county), ratio.                       *)
(***************************************************************************)
\* pd.merge(left, right, on=['year', 'county'], how='inner').  The disaster-day
\* file has an enrollment column of its own (line 39 reads enrollment_y, the
\* suffixed column of the right frame); that left column is read nowhere and
\* is left out of the rows.
RECURSIVE MergeInner(_, _)
MergeInner(left, right) ==
    IF left = <<>> THEN <<>>
    ELSE LET l == Head(left)
             match == SelectSeq(right, LAMBDA r : r.year = l.year /\ r.county = l.county)
         IN  [i \in 1..Len(match) |->
                 [year |-> l.year, county |-> l.county, reason |-> l.reason,
                  days |-> l.days, enrollment_y |-> match[i].enrollment]]
             \o MergeInner(Tail(left), right)

\* lines 38-42
WithDaysLost(df) ==
    [i \in 1..Len(df) |->
        LET days == ToNumeric(df[i].days)
            enr == ToNumeric(df[i].enrollment_y)
        IN  [year |-> df[i].year, county |-> df[i].county, reason |-> df[i].reason,
             days |-> days, enrollment_y |-> enr,
             total_days_lost_school |-> Times(days, enr)]]

Column(df, name) == [i \in 1..Len(df) |-> df[i][name]]

\* the aggregate with the days column summed in place of total_days_lost_school
CountyAggregateOfDays(df) ==
    LET keys == {<<df[i].year, df[i].county>> : i \in 1..Len(df)}
        group(key) == SelectSeq(df, LAMBDA r : r.year = key[1] /\ r.county = key[2])
    IN  {LET lost == ToNumeric(SumCells(Column(group(key), "days")))
             enr == ToNumeric(SumCells(Column(group(key), "enrollment_y")))
         IN  [year |-> key[1], county |-> key[2],
              total_days_lost |-> lost, total_enrollment |-> enr,
              days_per_student |-> Divide(lost, enr)] : key \in keys}

\* lines 45-55: one row per (year, county) key of the frame
CountyAggregate(df) ==
    LET keys == {<<df[i].year, df[i].county>> : i \in 1..Len(df)}
        group(key) == SelectSeq(df, LAMBDA r : r.year = key[1] /\ r.county = key[2])
    IN  {LET lost == ToNumeric(SumCells(Column(group(key), "total_days_lost_school")))
             enr == ToNumeric(SumCells(Column(group(key), "enrollment_y")))
         IN  [year |-> key[1], county |-> key[2],
              total_days_lost |-> lost, total_enrollment |-> enr,
              days_per_student |-> Divide(lost, enr)] : key \in keys}

(***************************************************************************)
(* Lines 57-85: county and year filters, global axis bounds.               *)
(***************************************************************************)
MinYear == 2002
MaxYear == 2018

california_counties_lower ==
    [i \in 1..Len(california_counties) |-> StrLower(california_counties[i])]

IsIn(x, list) == \E i \in 1..Len(list) : list[i] = x

\* line 68
NormalizeCountyName(df) ==
    [i \in 1..Len(df) |-> [df[i] EXCEPT !.COUNTY_NAME = StrReplaceCounty(StrLower(@))]]

\* the county filter alone, without the two year conditions
FilterCaliforniaAnyYear(df) ==
    SelectSeq(df, LAMBDA r : IsIn(r.COUNTY_NAME, california_counties_lower))

\* lines 72-76
FilterCalifornia(df) ==
    SelectSeq(df, LAMBDA r : /\ IsIn(r.COUNTY_NAME, california_counties_lower)
                             /\ r.YEAR >= MinYear
                             /\ r.YEAR <= MaxYear)

\* line 79
FilterYears(agg) == {r \in agg : r.year >= MinYear /\ r.year <= MaxYear}

\* line 83: the enrollment cells of 2018 as read, text cells included
Enrollment2018(df) == {df[i].enrollment : i \in {j \in 1..Len(df) : df[j].year = MaxYear}}

\* max() of a column that holds numbers and text compares the two: TypeError
StudentsMaxRaises(df) ==
    /\ \E v \in Enrollment2018(df) : v.k = "str"
    /\ \E v \in Enrollment2018(df) : v.k = "num"

StudentsMax(df) ==
    IF \E v \in Enrollment2018(df) : v.k = "str" THEN Text
    ELSE MaxCells(Enrollment2018(df))

\* line 85
DaysMax(agg) == MaxCells({r.days_per_student : r \in agg})

global_students_min == 0
global_days_min == 0

\* line 95: the option values of the dropdown
DropdownOptions == {StrTitle(california_counties[i]) : i \in 1..Len(california_counties)}

\* lines 102-108: the column ids of the data table
TableColumnIds ==
    {"year", "students_affected", "total_days_lost", "total_enrollment", "days_per_student"}

(***************************************************************************)
(* Lines 119-166: update_chart.                                            *)
(***************************************************************************)
RECURSIVE SortedYears(_)
SortedYears(S) ==
    IF S = {} THEN <<>>
    ELSE LET m == CHOOSE y \in S : \A z \in S : y <= z
         IN  <<m>> \o SortedYears(S \ {m})

RECURSIVE SetToSeq(_)
SetToSeq(S) ==
    IF S = {} THEN <<>>
    ELSE LET x == CHOOSE y \in S : TRUE
         IN  <<x>> \o SetToSeq(S \ {x})

\* lines 126-127: groupby('YEAR')['INCIDENT_ID'].count()
CountByYear(county_data) ==
    LET years == SortedYears({county_data[i].YEAR : i \in 1..Len(county_data)})
    IN  [i \in 1..Len(years) |->
            [Year |-> years[i],
             Students_Affected |->
                 Len(SelectSeq(county_data, LAMBDA r : r.YEAR = years[i]))]]

\* an inner join in place of the left join
RECURSIVE MergeInnerFill(_, _)
MergeInnerFill(agg_df, disaster_data) ==
    IF agg_df = <<>> THEN <<>>
    ELSE LET l == Head(agg_df)
             match == SetToSeq({r \in disaster_data : r.year = l.Year})
         IN  [i \in 1..Len(match) |->
                 [Year |-> l.Year, Students_Affected |-> l.Students_Affected,
                  year |-> match[i].year, county |-> match[i].county,
                  total_days_lost |-> FillNa(match[i].total_days_lost),
                  total_enrollment |-> FillNa(match[i].total_enrollment),
                  days_per_student |-> FillNa(match[i].days_per_student)]]
             \o MergeInnerFill(Tail(agg_df), disaster_data)

\* line 133: left join on Year = year, then fillna(0)
RECURSIVE MergeLeftFill(_, _)
MergeLeftFill(agg_df, disaster_data) ==
    IF agg_df = <<>> THEN <<>>
    ELSE LET l == Head(agg_df)
             match == SetToSeq({r \in disaster_data : r.year = l.Year})
             rows == IF match = <<>>
                     THEN <<[Year |-> l.Year, Students_Affected |-> l.Students_Affected,
                             year |-> 0, county |-> "0",
                             total_days_lost |-> FillNa(NaN),
                             total_enrollment |-> FillNa(NaN),
                             days_per_student |-> FillNa(NaN)]>>
                     ELSE [i \in 1..Len(match) |->
                             [Year |-> l.Year, Students_Affected |-> l.Students_Affected,
                              year |-> match[i].year, county |-> match[i].county,
                              total_days_lost |-> FillNa(match[i].total_days_lost),
                              total_enrollment |-> FillNa(match[i].total_enrollment),
                              days_per_student |-> FillNa(match[i].days_per_student)]]
         IN  rows \o MergeLeftFill(Tail(agg_df), disaster_data)

\* PlotFrame without the county filter on the incident rows
PlotFrameAllIncidents(selected, merged, agg) ==
    LET disaster_data == {r \in agg : r.county = StrLower(selected)}
    IN  MergeLeftFill(CountByYear(merged), disaster_data)

\* lines 121-133
PlotFrame(selected, merged, agg) ==
    LET county_data == SelectSeq(merged, LAMBDA r : r.COUNTY_NAME = StrLower(selected))
        disaster_data == {r \in agg : r.county = StrLower(selected)}
    IN  MergeLeftFill(CountByYear(county_data), disaster_data)

\* lines 123 and 139
Enrollment2018Of(selected, enrollment, students_max) ==
    LET enrollment_data ==
            SelectSeq(enrollment, LAMBDA r : r.county = StrLower(selected) /\ r.year = MaxYear)
    IN  IF enrollment_data # <<>> THEN enrollment_data[1].enrollment ELSE students_max

\* lines 142-161
Figure(plot_df, enrollment_2018, days_max) ==
    [data |-> <<[type |-> "bar", x |-> Column(plot_df, "Year"),
                 y |-> Column(plot_df, "Students_Affected")],
                [type |-> "scatter", x |-> Column(plot_df, "Year"),
                 y |-> Column(plot_df, "days_per_student")]>>,
     xaxis_range |-> <<MinYear, MaxYear>>,
     yaxis_range |-> <<Num(global_students_min), enrollment_2018>>,
     yaxis2_range |-> <<Num(global_days_min), days_max>>]

\* line 164: plot_df[[...]].to_dict('records')
TableData(plot_df) ==
    [i \in 1..Len(plot_df) |->
        [Year |-> plot_df[i].Year,
         Students_Affected |-> plot_df[i].Students_Affected,
         total_days_lost |-> plot_df[i].total_days_lost,
         total_enrollment |-> plot_df[i].total_enrollment,
         days_per_student |-> plot_df[i].days_per_student]]

\* selected_county.lower() on None: AttributeError
UpdateChartRaises(selected) == selected = None

NoFigure == [data |-> <<>>, xaxis_range |-> <<>>, yaxis_range |-> <<>>, yaxis2_range |-> <<>>]

(***************************************************************************)
(* The state machine.                                                      *)
(***************************************************************************)
Untouched ==
    /\ county_agg_df = {}
    /\ enrollment_df = <<>>
    /\ disaster_enrollment_df = <<>>
    /\ merged_df_california = <<>>
    /\ global_students_max = NaN
    /\ global_days_max = NaN
    /\ selected_county = "Alameda"
    /\ callback = "idle"
    /\ fig = NoFigure
    /\ table_data = <<>>
    /\ first_call = <<>>
    /\ pc = "loaded"

InitPipeline ==
    /\ disaster_days_df \in DisasterFiles(MaxDisasterRows)
    /\ enrollment_xlsx \in Sheets
    /\ county_incidents_df \in SampleIncidentFiles
    /\ Untouched

InitChart ==
    /\ disaster_days_df \in DisasterFiles(1)
    /\ enrollment_xlsx \in SampleSheets
    /\ county_incidents_df \in IncidentFiles(MaxIncidentRows)
    /\ Untouched

Init == InitPipeline \/ InitChart

Served == <<selected_county, callback, fig, table_data, first_call>>

\* lines 16-25
TransformEnrollment ==
    /\ pc = "loaded"
    /\ IF TransformRaises(enrollment_xlsx)
       THEN /\ pc' = "raised_18"
            /\ UNCHANGED <<enrollment_df, disaster_days_df>>
       ELSE /\ pc' = "transformed"
            /\ enrollment_df' = TransformedEnrollment(enrollment_xlsx)
            /\ disaster_days_df' = LowerCounty(disaster_days_df)
    /\ UNCHANGED <<county_incidents_df, enrollment_xlsx, disaster_enrollment_df,
                   county_agg_df, merged_df_california, global_students_max,
                   global_days_max>>
    /\ UNCHANGED Served

\* line 28
CastDisasterYear ==
    /\ pc = "transformed"
    /\ IF AsTypeIntRaises(disaster_days_df)
       THEN /\ pc' = "raised_28"
            /\ UNCHANGED disaster_days_df
       ELSE /\ pc' = "cast"
            /\ disaster_days_df' = AsTypeInt(disaster_days_df)
    /\ UNCHANGED <<county_incidents_df, enrollment_xlsx, enrollment_df,
                   disaster_enrollment_df, county_agg_df, merged_df_california,
                   global_students_max, global_days_max>>
    /\ UNCHANGED Served

\* lines 30-55
MergeAndAggregate ==
    /\ pc = "cast"
    /\ pc' = "aggregated"
    /\ disaster_enrollment_df' = WithDaysLost(MergeInner(disaster_days_df, enrollment_df))
    /\ county_agg_df' = CountyAggregate(disaster_enrollment_df')
    /\ UNCHANGED <<county_incidents_df, disaster_days_df, enrollment_xlsx, enrollment_df,
                   merged_df_california, global_students_max, global_days_max>>
    /\ UNCHANGED Served

\* lines 57-111
FilterAndLayout ==
    /\ pc = "aggregated"
    /\ county_incidents_df' = NormalizeCountyName(county_incidents_df)
    /\ merged_df_california' = FilterCalifornia(NormalizeCountyName(county_incidents_df))
    /\ county_agg_df' = FilterYears(county_agg_df)
    /\ IF StudentsMaxRaises(enrollment_df)
       THEN /\ pc' = "raised_83"
            /\ UNCHANGED <<global_students_max, global_days_max>>
       ELSE /\ pc' = "serving"
            /\ global_students_max' = StudentsMax(enrollment_df)
            /\ global_days_max' = DaysMax(FilterYears(county_agg_df))
    /\ UNCHANGED <<disaster_days_df, enrollment_xlsx, enrollment_df,
                   disaster_enrollment_df>>
    /\ UNCHANGED Served

\* the inputs the dropdown delivers in the model: two of its options, and None
\* when the selection is cleared
DropdownValues == {"Alameda", "Butte", None}

\* update_chart that keeps its filtered aggregate in the module-level name
update_chart_in_place(selected) ==
    /\ pc = "serving"
    /\ selected \in DropdownOptions \cup {None}
    /\ selected_county' = selected
    /\ IF UpdateChartRaises(selected)
       THEN /\ callback' = "raised"
            /\ UNCHANGED <<fig, table_data, first_call, county_agg_df>>
       ELSE LET plot_df == PlotFrame(selected, merged_df_california, county_agg_df)
                enrollment_2018 ==
                    Enrollment2018Of(selected, enrollment_df, global_students_max)
            IN  /\ callback' = "returned"
                /\ county_agg_df' = {r \in county_agg_df : r.county = StrLower(selected)}
                /\ fig' = Figure(plot_df, enrollment_2018, global_days_max)
                /\ table_data' = TableData(plot_df)
                /\ first_call' =
                       IF first_call = <<>>
                       THEN <<[county |-> selected, fig |-> fig',
                               table_data |-> table_data', others |-> FALSE]>>
                       ELSE <<[first_call[1] EXCEPT
                                 !.others = @ \/ selected # first_call[1].county]>>
    /\ UNCHANGED pc
    /\ UNCHANGED <<county_incidents_df, disaster_days_df, enrollment_xlsx, enrollment_df,
                   disaster_enrollment_df, merged_df_california, global_students_max,
                   global_days_max>>

\* lines 119-166
update_chart(selected) ==
    /\ pc = "serving"
    /\ selected \in DropdownOptions \cup {None}
    /\ selected_county' = selected
    /\ IF UpdateChartRaises(selected)
       THEN /\ callback' = "raised"
            /\ UNCHANGED <<fig, table_data, first_call>>
       ELSE LET plot_df == PlotFrame(selected, merged_df_california, county_agg_df)
                enrollment_2018 ==
                    Enrollment2018Of(selected, enrollment_df, global_students_max)
            IN  /\ callback' = "returned"
                /\ fig' = Figure(plot_df, enrollment_2018, global_days_max)
                /\ table_data' = TableData(plot_df)
                /\ first_call' =
                       IF first_call = <<>>
                       THEN <<[county |-> selected, fig |-> fig',
                               table_data |-> table_data', others |-> FALSE]>>
                       ELSE <<[first_call[1] EXCEPT
                                 !.others = @ \/ selected # first_call[1].county]>>
    /\ UNCHANGED pc
    /\ UNCHANGED frames

Next ==
    \/ TransformEnrollment
    \/ CastDisasterYear
    \/ MergeAndAggregate
    \/ FilterAndLayout
    \/ \E selected \in DropdownValues : update_chart(selected)

Spec == Init /\ [][Next]_vars

(***************************************************************************)
(* Properties.                                                             *)
(***************************************************************************)
Returned == callback = "returned"
Aggregated == pc \in {"aggregated", "serving"}
Selected == StrLower(selected_county)

RowKeys == {"Year", "Students_Affected", "total_days_lost", "total_enrollment",
            "days_per_student"}

\* the rows of a frame that satisfy a condition, as a set of positions
Where(df, Cond(_)) == {i \in 1..Len(df) : Cond(df[i])}

SelectedIncidents(y) ==
    Where(merged_df_california, LAMBDA r : r.COUNTY_NAME = Selected /\ r.YEAR = y)

SelectedIncidentYears ==
    {merged_df_california[i].YEAR :
        i \in Where(merged_df_california, LAMBDA r : r.COUNTY_NAME = Selected)}

\* C1: for any selected county, update_chart returns exactly two traces, a
\* bar trace and a line trace over the same years, and a flat list of rows,
\* one per year of the county's incident rows, that carries the county's
\* incident count, the county's aggregate for that year and its ratio
\* (days_per_student * total_enrollment = total_days_lost); the primary axis
\* ends at a 2018 enrollment of the county when it has one.
C1_UpdateChartOutput ==
    Returned =>
        /\ Len(fig.data) = 2
        /\ fig.data[1].type = "bar"
        /\ fig.data[2].type = "scatter"
        /\ fig.data[1].x = fig.data[2].x
        /\ Len(fig.data[1].x) = Len(table_data)
        /\ \A i \in 1..Len(table_data) :
              LET row == table_data[i]
              IN  /\ DOMAIN row = RowKeys
                  /\ fig.data[1].x[i] = row.Year
                  /\ fig.data[1].y[i] = row.Students_Affected
                  /\ fig.data[2].y[i] = row.days_per_student
                  /\ row.Year \in SelectedIncidentYears
                  /\ row.Students_Affected = Cardinality(SelectedIncidents(row.Year))
                  /\ \A r \in county_agg_df :
                        (r.county = Selected /\ r.year = row.Year) =>
                            /\ row.total_days_lost = r.total_days_lost
                            /\ row.total_enrollment = r.total_enrollment
                  /\ row.total_enrollment # Num(0) =>
                        Times(row.days_per_student, row.total_enrollment)
                            = row.total_days_lost
        /\ \A y \in SelectedIncidentYears : \E i \in 1..Len(table_data) : table_data[i].Year = y
        /\ LET mine == Where(enrollment_df, LAMBDA r : r.county = Selected /\ r.year = MaxYear)
           IN  mine # {} => \E j \in mine : fig.yaxis_range[2] = enrollment_df[j].enrollment

\* a returned call for a county with two incident years, one of them with an
\* aggregate row, while another county has incident rows too
C1_Witness ==
    /\ Returned
    /\ Len(table_data) >= 2
    /\ \E i \in 1..Len(table_data) : table_data[i].total_enrollment # Num(0)
    /\ \E i \in 1..Len(merged_df_california) : merged_df_california[i].COUNTY_NAME # Selected

SameAsFirstCall ==
    (Returned /\ first_call # <<>> /\ selected_county = first_call[1].county) =>
        /\ fig = first_call[1].fig
        /\ table_data = first_call[1].table_data

\* C2: once the server is up, no step changes a process-wide dataframe or a
\* global axis bound, and a call for the county of the first returned call
\* returns the figure and the rows that first call returned, whatever calls
\* came between.
C2_FramesReadOnly ==
    [][/\ pc = "serving" => frames' = frames
       /\ SameAsFirstCall']_vars

\* the county of the first call is selected again after a call for another
\* county has returned
C2_Witness ==
    /\ Returned
    /\ first_call # <<>>
    /\ first_call[1].others
    /\ selected_county = first_call[1].county
    /\ table_data # <<>>
    /\ county_agg_df # {}

\* the (year, county) keys of a frame
KeysOf(df) == {<<df[i].year, df[i].county>> : i \in 1..Len(df)}

\* the years the selected county has incident rows for but no aggregate row
UnmatchedYears ==
    {y \in SelectedIncidentYears :
        ~\E r \in county_agg_df : r.county = Selected /\ r.year = y}

\* C3: a disaster-day record without an enrollment row of its (year, county),
\* and an enrollment row without a disaster-day record, leave no row in the
\* joined frame or in the county aggregate; a year with incident rows of the
\* selected county and no aggregate row appears in the returned rows with
\* total_days_lost, total_enrollment and days_per_student equal to 0.
C3_MissingJoinKeys ==
    /\ Aggregated =>
          \A key \in KeysOf(disaster_days_df) \cup KeysOf(enrollment_df) :
              (key \notin KeysOf(disaster_days_df) \/ key \notin KeysOf(enrollment_df)) =>
                  /\ key \notin KeysOf(disaster_enrollment_df)
                  /\ ~\E r \in county_agg_df : <<r.year, r.county>> = key
    /\ Returned =>
          \A y \in UnmatchedYears :
              /\ \E i \in 1..Len(table_data) : table_data[i].Year = y
              /\ \A i \in 1..Len(table_data) :
                    table_data[i].Year = y =>
                        /\ table_data[i].total_days_lost = Num(0)
                        /\ table_data[i].total_enrollment = Num(0)
                        /\ table_data[i].days_per_student = Num(0)

\* a returned call with a zero-filled year, after a start-up in which a
\* disaster-day record found no enrollment row
C3_Witness ==
    /\ Returned
    /\ UnmatchedYears # {}
    /\ KeysOf(disaster_days_df) \ KeysOf(enrollment_df) # {}

InRange(y) == y >= 2002 /\ y <= 2018

Raised == pc \in {"raised_18", "raised_28", "raised_83"}

\* a value column of the sheet whose label has no year in front of the dash
BadLabel == enrollment_xlsx.rows # <<>>
            /\ \E c \in 1..Len(enrollment_xlsx.header) :
                  \E i \in 1..Len(SplitFirst(enrollment_xlsx.header[c])) :
                      ~IsDigit(SplitFirst(enrollment_xlsx.header[c])[i])

NumberOrMissing(v) == v.k \in {"num", "nan"}

\* C4 as stated: no coercion step ends the start-up in an error, whatever
\* the cells hold.
C4_AllCoercionsSilent == ~Raised

\* C4 as amended: parsing days and enrollment as numbers turns a cell that
\* is not a number into a missing value and the join and the aggregation
\* complete; a year label without a year, and a disaster-day year that is
\* not a number, raise and end the start-up.
C4_NumericCoercionSilent ==
    [][/\ (pc = "loaded" /\ BadLabel) => pc' = "raised_18"
       /\ (pc = "transformed" /\ \E i \in 1..Len(disaster_days_df) :
                                    disaster_days_df[i].year.k # "num")
             => pc' = "raised_28"
       /\ pc = "cast" =>
             /\ pc' = "aggregated"
             /\ \A k \in 1..Len(disaster_enrollment_df') :
                   /\ NumberOrMissing(disaster_enrollment_df'[k].days)
                   /\ NumberOrMissing(disaster_enrollment_df'[k].enrollment_y)
                   /\ NumberOrMissing(disaster_enrollment_df'[k].total_days_lost_school)
             /\ \A i \in 1..Len(disaster_days_df), j \in 1..Len(enrollment_df) :
                   (/\ disaster_days_df[i].year = enrollment_df[j].year
                    /\ disaster_days_df[i].county = enrollment_df[j].county) =>
                       \E k \in 1..Len(disaster_enrollment_df') :
                           LET row == disaster_enrollment_df'[k]
                           IN  /\ row.year = enrollment_df[j].year
                               /\ row.county = enrollment_df[j].county
                               /\ row.reason = disaster_days_df[i].reason
                               /\ row.days = IF disaster_days_df[i].days.k = "str"
                                             THEN NaN ELSE disaster_days_df[i].days
                               /\ row.enrollment_y = IF enrollment_df[j].enrollment.k = "str"
                                                     THEN NaN ELSE enrollment_df[j].enrollment
             /\ \A r \in county_agg_df' :
                   /\ r.total_days_lost.k = "num"
                   /\ r.total_enrollment.k = "num"]_vars

\* the server is up although a days cell and an enrollment cell of joined
\* records were not numbers
C4_Witness ==
    /\ pc = "serving"
    /\ \E k \in 1..Len(disaster_enrollment_df) : disaster_enrollment_df[k].days = NaN
    /\ \E k \in 1..Len(disaster_enrollment_df) : disaster_enrollment_df[k].enrollment_y = NaN
    /\ \E i \in 1..Len(enrollment_df) : enrollment_df[i].enrollment = Text

\* the joined records of one (year, county) pair
Records(r) ==
    SelectSeq(disaster_enrollment_df, LAMBDA x : x.year = r.year /\ x.county = r.county)

DaysTimesEnrollment(recs) == [i \in 1..Len(recs) |-> Times(recs[i].days, recs[i].enrollment_y)]

\* the days values of the records, missing ones left out
DaysValues(recs) == {recs[i].days : i \in Where(recs, LAMBDA x : IsNum(x.days))}

RollupTotals ==
    \A r \in county_agg_df :
        /\ \A q \in county_agg_df : (q.year = r.year /\ q.county = r.county) => q = r
        /\ Records(r) # <<>>
        /\ r.total_days_lost = SumCells(DaysTimesEnrollment(Records(r)))
        /\ r.total_enrollment = SumCells(Column(Records(r), "enrollment_y"))
        /\ r.total_enrollment # Num(0) =>
              Times(r.days_per_student, r.total_enrollment) = r.total_days_lost
        /\ r.total_enrollment = Num(0) => r.days_per_student = NaN

\* C5 as stated: one row per (year, county) with the two sums and their
\* ratio, and the ratio lies between the smallest and the largest days value
\* of the pair's records.
C5_RatioBetweenDays ==
    Aggregated =>
        /\ RollupTotals
        /\ \A r \in county_agg_df :
              (r.total_enrollment # Num(0) /\ DaysValues(Records(r)) # {}) =>
                  /\ \E a \in DaysValues(Records(r)) : LessEq(a, r.days_per_student)
                  /\ \E b \in DaysValues(Records(r)) : LessEq(r.days_per_student, b)

\* C5 as amended: one row per (year, county) with the two sums and their
\* ratio; when total_enrollment is not zero the ratio is at least 0 and at
\* most the largest days value of the pair's records (0 when no record has
\* one), and at least the smallest when no record of the pair has a missing
\* days value.
C5_CountyRollup ==
    Aggregated =>
        /\ RollupTotals
        /\ \A r \in county_agg_df :
              r.total_enrollment # Num(0) =>
                  /\ LessEq(Num(0), r.days_per_student)
                  /\ \/ \E b \in DaysValues(Records(r)) : LessEq(r.days_per_student, b)
                     \/ DaysValues(Records(r)) = {} /\ r.days_per_student = Num(0)
                  /\ (\A i \in 1..Len(Records(r)) : IsNum(Records(r)[i].days)) =>
                        \E a \in DaysValues(Records(r)) : LessEq(a, r.days_per_student)

\* an aggregate row over two records with different days values
C5_Witness ==
    /\ Aggregated
    /\ \E r \in county_agg_df :
          /\ Cardinality(DaysValues(Records(r))) >= 2
          /\ r.total_enrollment # Num(0)
          /\ r.total_days_lost # Num(0)

WildfireRecords(r) == SelectSeq(Records(r), LAMBDA x : x.reason = "wildfire")

\* C6: the totals of every aggregate row are those of the pair's wildfire
\* records alone, so a record with another reason changes none of them.
C6_WildfireOnly ==
    Aggregated =>
        \A r \in county_agg_df :
            /\ r.total_days_lost = SumCells(DaysTimesEnrollment(WildfireRecords(r)))
            /\ r.total_enrollment = SumCells(Column(WildfireRecords(r), "enrollment_y"))

\* C7: the returned rows hold one row for every year from 2002 to 2018.
C7_EveryYearHasRow ==
    Returned =>
        \A y \in 2002..2018 :
            Cardinality(Where(table_data, LAMBDA row : row.Year = y)) = 1

\* C8: every returned row has an entry under each column id of the table.
C8_RowsKeyedByColumnIds ==
    Returned =>
        \A i \in 1..Len(table_data) : \A id \in TableColumnIds : id \in DOMAIN table_data[i]

\* C10: update_chart returns for every value the dropdown delivers, the
\* empty selection included.
C10_NeverRaises == callback # "raised"

====
